---- MODULE Spec2Model ----
(***************************************************************************)
(* The withdraw relay of the bridge (bridge/src/bridge/withdraw_relay.rs): *)
(* signatures_payload as an operator on byte strings, and the stream       *)
(* WithdrawRelay, whose poll is one action that runs the state loop until  *)
(* it returns.  The foreign RPC, the home transaction sender and the       *)
(* balance / gas price refreshers are the environment.                     *)
(***************************************************************************)
EXTENDS Integers, Sequences, FiniteSets, TLC

\* ------------------------------------------------------------------ bounds
\* the longest list of logs one LogStream item carries
MaxLogs == 2
\* the highest block number the foreign chain reaches
MaxBlock == 2
\* the highest small count of collected signatures an event is given
MaxSignatures == 3

\* Option: None is the empty sequence, Some(v) the sequence of v alone
None == <<>>
Some(v) == <<v>>

\* ------------------------------------------------------------- byte strings
Zeros(n) == [i \in 1..n |-> 0]

\* the 32-byte big-endian word of a number below 256
Word(b) == Zeros(31) \o <<b>>

\* the 32-byte big-endian word of a u32 (ethabi Token::Uint of a u32)
U32Word(i) ==
    Zeros(28) \o << (i \div 16777216) % 256, (i \div 65536) % 256,
                    (i \div 256) % 256, i % 256 >>

\* U256::low_u32: the low 32 bits of a 256-bit word, as a number
low_u32(w) == w[29] * 16777216 + w[30] * 65536 + w[31] * 256 + w[32]

\* the 20-byte address of an ABI address word (its upper 12 bytes are dropped)
AddressOfWord(w) == SubSeq(w, 13, 32)
AddressWord(a) == Zeros(12) \o a

\* ------------------------------------------------- foreign contract bindings
\* topic of ForeignBridge.CollectedSignatures(address,bytes32,uint256)
CollectedSignaturesTopic ==
    << 65, 85, 87, 64, 77, 136, 160, 192, 184, 227, 177, 105, 103, 202, 255, 252,
       81, 18, 19, 253, 156, 70, 92, 22, 131, 46, 225, 126, 213, 125, 114, 55 >>

\* selector of ForeignBridge.message(bytes32)
MessageSelector == << 73, 10, 50, 198 >>
\* selector of ForeignBridge.signature(bytes32,uint256)
SignatureSelector == << 24, 18, 217, 150 >>

\* foreign.functions().message().input(hash)
MessageInput(hash) == MessageSelector \o hash
\* foreign.functions().signature().input(hash, index)
SignatureInput(hash, index) == SignatureSelector \o hash \o U32Word(index)

\* foreign.events().collected_signatures().parse_log(raw_log): one topic, the
\* event's, and data the decoder takes: whole 32-byte words, at least the
\* three of the event
ParseLogFails(log) ==
    \/ Len(log.topics) # 1
    \/ log.topics[1] # CollectedSignaturesTopic
    \/ Len(log.data) % 32 # 0
    \/ Len(log.data) < 96

ParseLog(log) ==
    [ authority_responsible_for_relay |-> AddressOfWord(SubSeq(log.data, 1, 32)),
      message_hash |-> SubSeq(log.data, 33, 64),
      number_of_collected_signatures |-> SubSeq(log.data, 65, 96) ]

\* ------------------------------------------------------- signatures_payload
\* required_signatures: the count encoded as the argument of message(), the
\* selector cut off, read back as a U256
RequiredSignatures(number) == SubSeq(MessageInput(number), 5, 36)

\* the test the wrong way round: a node relays what the others own
NotResponsible_Inverted(authority, my_address) == authority = my_address

\* the authority named by the event is not this node
NotResponsible(authority, my_address) == authority # my_address

\* (0..required_signatures.low_u32()).map(|index| signature().input(hash, index))
SignaturePayloads(hash, required) ==
    [i \in 1..low_u32(required) |-> SignatureInput(hash, i - 1)]

\* log.transaction_hash.unwrap(), an argument of info!(..): the macro evaluates
\* its arguments only when the logger takes records of level Info
UnwrapPanics(info_enabled, transaction_hash) ==
    info_enabled /\ transaction_hash = None

\* error::Result<Option<RelayAssignment>>: tag is "Err", "None" or "Some", or
\* "Panic" when the call does not return
signatures_payload(my_address, log, info_enabled) ==
    IF ParseLogFails(log) THEN [tag |-> "Err"]
    ELSE LET collected_signatures == ParseLog(log) IN
         IF NotResponsible(collected_signatures.authority_responsible_for_relay, my_address)
         THEN IF UnwrapPanics(info_enabled, log.transaction_hash)
              THEN [tag |-> "Panic"]
              ELSE [tag |-> "None"]
         ELSE [ tag |-> "Some",
                signature_payloads |->
                    SignaturePayloads(collected_signatures.message_hash,
                        RequiredSignatures(collected_signatures.number_of_collected_signatures)),
                message_payload |-> MessageInput(collected_signatures.message_hash) ]

\* ---------------------------------------------------------------- the inputs
\* the account of the first test (line 276) and the account of the second (line 307)
AddrCCCC ==
    << 175, 243, 69, 79, 206, 94, 219, 200, 204, 168, 105, 124, 21, 51, 22, 119,
       230, 235, 204, 204 >>
AddrCCCD ==
    << 175, 243, 69, 79, 206, 94, 219, 200, 204, 168, 105, 124, 21, 51, 22, 119,
       230, 235, 204, 205 >>
Addresses == {AddrCCCC, AddrCCCD}

\* 2^32 as a 256-bit word: its low 32 bits are zero
Word2Pow32 == Zeros(27) \o <<1>> \o Zeros(4)

\* the transaction hash of the log of the tests (line 283)
TestTransactionHash ==
    << 136, 78, 218, 217, 206, 111, 162, 68, 13, 138, 84, 204, 18, 52, 144, 235,
       150, 210, 118, 132, 121, 212, 159, 249, 199, 54, 97, 37, 169, 66, 67, 100 >>

\* a web3 Log, the fields signatures_payload reads: of a mined log the node
\* reports the hash of its transaction
MkLog(authority, hash, number) ==
    [ topics |-> <<CollectedSignaturesTopic>>,
      data |-> AddressWord(authority) \o hash \o number,
      transaction_hash |-> Some(TestTransactionHash) ]

\* the log of both tests: authority ...cccc, message hash 0xf0, two signatures
TestLog == MkLog(AddrCCCC, Word(240), Word(2))
\* a count of collected signatures that does not fit 32 bits
BigLog == MkLog(AddrCCCC, Word(242), Word2Pow32)
\* a withdraw of the other authority, whose stored message does not decode, in
\* a log the node reports without a transaction hash, as it does for a pending
\* log
CorruptLog ==
    [MkLog(AddrCCCD, Word(243), Word(0)) EXCEPT !.transaction_hash = None]
\* a log that is no CollectedSignatures event: the data is one word short
MalformedLog ==
    [ topics |-> <<CollectedSignaturesTopic>>,
      data |-> AddressWord(AddrCCCC) \o Word(240),
      transaction_hash |-> Some(TestTransactionHash) ]

LogSet == {TestLog, BigLog, CorruptLog, MalformedLog}

RECURSIVE SeqsUpTo(_, _)
SeqsUpTo(S, n) ==
    IF n = 0 THEN {<<>>}
    ELSE LET shorter == SeqsUpTo(S, n - 1) IN
         shorter \cup {Append(q, x) : q \in {r \in shorter : Len(r) = n - 1}, x \in S}

LogBatches == SeqsUpTo(LogSet, MaxLogs)

\* the values the shared home_gas_price and a known home_balance take
GasPrices == {1, 2}
Balances == {0, 4}

\* app.config.txs.withdraw_relay.gas
GasLimit == 2

\* ------------------------------------------------------ the foreign contract
\* what ForeignBridge stores: message(hash) carries the gas price the withdraw
\* asked for, and signature(hash, index) is one collected signature
MainnetGasPrice(h) == IF h = 240 THEN 3 ELSE 1
MessageCorrupt(h) == h = 243

\* the bytes an eth_call of `payload` returns once it succeeds
ForeignCall(payload) ==
    LET h == payload[36] IN
    IF SubSeq(payload, 1, 4) = MessageSelector
    THEN [ valid |-> ~MessageCorrupt(h),
           value |-> [hash |-> h, mainnet_gas_price |-> MainnetGasPrice(h)] ]
    ELSE LET index == low_u32(SubSeq(payload, 37, 68)) IN
         [ valid |-> TRUE,
           value |-> [v |-> <<"v", h, index>>, r |-> <<"r", h, index>>,
                      s |-> <<"s", h, index>>] ]

\* -------------------------------------------------------------------- state
VARIABLES
    foreign_account,  \* app.config.foreign.account, this node's address
    state,            \* WithdrawRelay.state
    logs_after,       \* the watermark of WithdrawRelay.logs
    home_balance,     \* the shared Option<U256>
    panicked,         \* a call of poll panicked: the stream is not polled again
    ret,              \* what the call of poll that just returned gave, and what
                      \* it polled; Idle once the environment has moved on
    cur,              \* the batch taken last: its block, its owned events, its sends
    out,              \* the checkpoint values emitted so far, in order
    aborted,          \* the batches for which poll returned an error: the block
                      \* and the state the engine was in
    unsent,           \* the blocks of the batches with an owned event whose
                      \* withdraw has not been sent successfully
    payload_call      \* one log, and what signatures_payload returned for it to
                      \* each node of the deployment

vars == << foreign_account, state, logs_after, home_balance,
           panicked, ret, cur, out, aborted, unsent, payload_call >>

\* ------------------------------------------------------------ the log stream
\* what one poll of the LogStream may return: nothing yet, a transport error,
\* or the logs of the blocks after the watermark up to a later block `to`
LogStreamPoll(after) ==
    {[kind |-> "NotReady"], [kind |-> "Err"]}
        \cup {[kind |-> "Item", item |-> [logs |-> logs, to |-> to]] :
                 logs \in LogBatches, to \in (after + 1)..MaxBlock}

\* the stream moves its watermark to the upper block of the item it hands out
LogStreamAfter(after, res) == IF res.kind = "Item" THEN res.item.to ELSE after

\* ------------------------------------------------------------------ futures
\* timer.timeout(api::call(foreign, foreign_contract, payload), ..): the request
\* goes out; the future holds the selector and hash it asked for, the bytes the
\* contract answers with, and whether they have arrived
ApiCall(payload) ==
    [ selector |-> SubSeq(payload, 1, 4),
      hash |-> payload[36],
      response |-> ForeignCall(payload),
      status |-> "pending" ]

\* the positions of the calls of a fetch future: <<0, i>> is the i-th message
\* call, <<i, j>> the j-th signature call of the i-th withdraw
CallPositions(future) ==
    {<<0, i>> : i \in 1..Len(future.message_calls)}
        \cup UNION {{<<i, j>> : j \in 1..Len(future.signature_calls[i])} :
                       i \in 1..Len(future.signature_calls)}

CallAt(future, pos) ==
    IF pos[1] = 0 THEN future.message_calls[pos[2]]
    ELSE future.signature_calls[pos[1]][pos[2]]

PendingCalls(future) ==
    {pos \in CallPositions(future) : CallAt(future, pos).status = "pending"}

NoFail == <<0, 0>>

\* an answer of the foreign node that is not the encoding of a message or of
\* a signature
Undecodable ==
    [ valid |-> FALSE,
      value |-> [ hash |-> 0, mainnet_gas_price |-> 0,
                  v |-> <<>>, r |-> <<>>, s |-> <<>> ] ]

\* the results of the join as the arm gets them: the answer of the call at
\* position `garbled`, if any, is undecodable
MessagesRaw(p, garbled) ==
    [i \in 1..Len(p.messages_raw) |->
        IF garbled = <<0, i>> THEN Undecodable ELSE p.messages_raw[i]]

SignaturesRaw(p, garbled) ==
    [i \in 1..Len(p.signatures_raw) |->
        [j \in 1..Len(p.signatures_raw[i]) |->
            IF garbled = <<i, j>> THEN Undecodable ELSE p.signatures_raw[i][j]]]

\* Join<JoinAll, JoinAll>::poll. `fail` is the pending call that fails in
\* this poll, if any: the join erases itself and returns the error. With every
\* call done the results are taken out, in the order of the calls.
JoinPoll(future, fail) ==
    IF fail # NoFail
    THEN [kind |-> "Err", future |-> [future EXCEPT !.gone = TRUE]]
    ELSE IF PendingCalls(future) # {}
    THEN [kind |-> "NotReady", future |-> future]
    ELSE [ kind |-> "Ready",
           future |-> [future EXCEPT !.gone = TRUE],
           messages_raw |->
               [i \in 1..Len(future.message_calls) |->
                   future.message_calls[i].response],
           signatures_raw |->
               [i \in 1..Len(future.signature_calls) |->
                   [j \in 1..Len(future.signature_calls[i]) |->
                       future.signature_calls[i][j].response]] ]

\* a collect that is done as soon as the ready queue is empty
RECURSIVE CollectPoll_FirstReady(_)
CollectPoll_FirstReady(future) ==
    IF future.queue = <<>>
    THEN [kind |-> "Ready", future |-> [future EXCEPT !.items = 0]]
    ELSE LET i == Head(future.queue)
             rest == [future EXCEPT !.queue = Tail(@), !.sends[i].status = "gone"]
         IN IF future.sends[i].status = "ok"
            THEN CollectPoll_FirstReady([rest EXCEPT !.items = @ + 1])
            ELSE [kind |-> "Err", future |-> [rest EXCEPT !.items = 0]]

\* Collect<FuturesUnordered>::poll: the sends that finished are taken from the
\* ready queue in the order they finished; a finished send leaves the set; the
\* first failed one ends the poll with its error and drops the items collected
RECURSIVE CollectPoll(_)
CollectPoll(future) ==
    IF future.queue = <<>>
    THEN IF \A i \in 1..Len(future.sends) : future.sends[i].status = "gone"
         THEN [kind |-> "Ready", future |-> [future EXCEPT !.items = 0]]
         ELSE [kind |-> "NotReady", future |-> future]
    ELSE LET i == Head(future.queue)
             rest == [future EXCEPT !.queue = Tail(@), !.sends[i].status = "gone"]
         IN IF future.sends[i].status = "ok"
            THEN CollectPoll([rest EXCEPT !.items = @ + 1])
            ELSE [kind |-> "Err", future |-> [rest EXCEPT !.items = 0]]

\* ------------------------------------------------------------ poll's results
Continue(m) == [m |-> m, ret |-> [kind |-> "Continue"]]
NotReady(m) ==
    [m |-> m, ret |-> [kind |-> "NotReady", error |-> "", context |-> "", value |-> 0]]
\* Ok(Async::Ready(Some(BridgeChecked::WithdrawRelay(v))))
Ready(m, v) ==
    [m |-> m, ret |-> [kind |-> "Ready", error |-> "", context |-> "", value |-> v]]
Err(m, error, context) ==
    [m |-> m, ret |-> [kind |-> "Err", error |-> error, context |-> context, value |-> 0]]
Panic(m, message) ==
    [m |-> m, ret |-> [kind |-> "Panic", error |-> message, context |-> "", value |-> 0]]

\* the poll returned an error while the batch of `block` was the one in hand
Abort(m, block) ==
    [m EXCEPT !.aborted = @ \cup {[block |-> block, stage |-> m.state.tag]}]

\* ------------------------------------------------------------ the batch taken
\* the message hashes (their last byte) of the CollectedSignatures events of
\* `logs` that name `account` as the authority responsible for the relay
OwnedEvents(logs, account) ==
    LET owned == SelectSeq(logs, LAMBDA log :
                     /\ ~ParseLogFails(log)
                     /\ SubSeq(log.data, 13, 32) = account)
    IN [i \in 1..Len(owned) |-> owned[i].data[64]]

NewBatch(item, account) ==
    [ block |-> item.to,
      logs |-> Len(item.logs),
      owned |-> OwnedEvents(item.logs, account),
      malformed |-> Cardinality({i \in 1..Len(item.logs) : ParseLogFails(item.logs[i])}),
      issued |-> <<>>,
      gate |-> "",
      submitted |-> 0,
      send_ok |-> 0,
      send_err |-> 0 ]

\* ---------------------------------------------------------------- Wait arm
\* the message of the first assignment asked for twice
MessageCalls_Twice(assignments) ==
    [i \in 1..Len(assignments) |-> ApiCall(assignments[i].message_payload)]
        \o (IF assignments = <<>> THEN <<>>
            ELSE <<ApiCall(assignments[1].message_payload)>>)

\* the message calls and the groups of signature calls of the assignments
MessageCalls(assignments) ==
    [i \in 1..Len(assignments) |-> ApiCall(assignments[i].message_payload)]

SignatureCalls(assignments) ==
    [i \in 1..Len(assignments) |->
        [j \in 1..Len(assignments[i].signature_payloads) |->
            ApiCall(assignments[i].signature_payloads[j])]]

\* filter_map(|a| a): the assignments that are Some, in the order of the logs
Responsible(results) == SelectSeq(results, LAMBDA a : a.tag = "Some")

\* collect::<error::Result<Vec<_>>>() takes the results in the order of the
\* logs and stops at the first error; a call that panics ends the poll
WaitArm(m, account, logres, info_enabled) ==
    LET m0 == [m EXCEPT !.polled = @ \cup {"logs"},
                        !.logs_after = LogStreamAfter(@, logres)]
    IN
    IF logres.kind = "NotReady" THEN NotReady(m0)
    ELSE IF logres.kind = "Err"
    THEN Err(m0, "ContextualizedError", "polling foreign for collected signatures")
    ELSE
    LET item == logres.item
        m1 == [m0 EXCEPT !.cur = NewBatch(item, account),
                         !.unsent = IF OwnedEvents(item.logs, account) # <<>>
                                    THEN @ \cup {item.to} ELSE @]
        results == [i \in 1..Len(item.logs) |->
                       signatures_payload(account, item.logs[i], info_enabled)]
        stops == {i \in 1..Len(results) : results[i].tag \in {"Err", "Panic"}}
    IN
    IF stops # {}
    THEN IF results[CHOOSE i \in stops : \A j \in stops : i <= j].tag = "Panic"
         THEN Panic(m1, "called Option::unwrap() on a None value, withdraw_relay.rs:46")
         ELSE Err(Abort(m1, item.to), "DecodeError", "")
    ELSE
    LET assignments == Responsible(results)
        message_calls == MessageCalls(assignments)
        signature_calls == SignatureCalls(assignments)
    IN Continue([m1 EXCEPT
           !.state = [ tag |-> "FetchMessagesSignatures",
                       future |-> [ gone |-> FALSE,
                                    message_calls |-> message_calls,
                                    signature_calls |-> signature_calls ],
                       block |-> item.to ],
           !.cur.issued = [i \in 1..Len(assignments) |->
                              [ hash |-> message_calls[i].hash,
                                signatures |-> Len(signature_calls[i]) ]] ])

\* ------------------------------------------------- FetchMessagesSignatures arm
\* the cost of one transaction, the number of withdraws forgotten
BalanceRequired_PerTransaction(gas, gas_price, n) == gas * gas_price

\* gas * gas_price * U256::from(messages_raw.len()): two u64 and a usize, the
\* product is below 2^192 and does not overflow the U256
BalanceRequired(gas, gas_price, n) == gas * gas_price * n

\* balance_required > *home_balance
InsufficientFunds(balance_required, balance) == balance_required > balance[1]

\* a decoder that takes every answer
DecodeFails_Never(raw) == FALSE

\* message().output(raw) and signature().output(raw) with Signature::from_bytes
DecodeFails(raw) == ~raw.valid
Decode(raw) == raw.value

\* home_bridge.functions().withdraw().input(vs, rs, ss, message)
WithdrawInput(signatures, message) ==
    [ vs |-> [k \in 1..Len(signatures) |-> signatures[k].v],
      rs |-> [k \in 1..Len(signatures) |-> signatures[k].r],
      ss |-> [k \in 1..Len(signatures) |-> signatures[k].s],
      message |-> message ]

\* a transaction priced with the gas limit instead of the message's gas price
RelayTransaction_GasAsPrice(gas, message, signatures) ==
    [ gas |-> gas,
      gas_price |-> gas,
      value |-> 0,
      data |-> WithdrawInput(signatures, message),
      nonce |-> 0,
      action |-> "home_contract" ]

\* the Transaction of one withdraw
RelayTransaction(gas, message, signatures) ==
    [ gas |-> gas,
      gas_price |-> message.mainnet_gas_price,
      value |-> 0,
      data |-> WithdrawInput(signatures, message),
      nonce |-> 0,
      action |-> "home_contract" ]

\* api::send_transaction_with_nonce(.., tx, ..): the pending send of `tx`
SendTransaction(tx) == [tx |-> tx, status |-> "pending"]

\* the messages zipped with the signature groups in reverse order
Relays_Crossed(gas, messages, signatures) ==
    LET n == IF Len(messages) < Len(signatures) THEN Len(messages) ELSE Len(signatures)
    IN [i \in 1..n |->
           SendTransaction(RelayTransaction(gas, messages[i], signatures[n + 1 - i]))]

\* messages.zip(signatures).map(..).collect_vec()
Relays(gas, messages, signatures) ==
    LET n == IF Len(messages) < Len(signatures) THEN Len(messages) ELSE Len(signatures)
    IN [i \in 1..n |-> SendTransaction(RelayTransaction(gas, messages[i], signatures[i]))]

\* the check of the balance left out
BalanceUnknown_Unchecked(balance) == FALSE

\* the check the wrong way round: the arm goes on when the balance is unknown
BalanceUnknown_Inverted(balance) == balance # None

\* a balance that is never taken for known
BalanceUnknown_Always(balance) == TRUE

\* home_balance.is_none(): the arm returns before it touches the future
BalanceUnknown(balance) == balance = None

FetchArm(m, balance, gas_price, fail, garbled) ==
    LET future == m.state.future
        block == m.state.block
    IN
    IF BalanceUnknown(balance) THEN NotReady(m)
    ELSE IF future.gone
    THEN Panic([m EXCEPT !.polled = @ \cup {"fetch"}], "cannot poll Join twice")
    ELSE
    IF fail \notin PendingCalls(future) \cup {NoFail} THEN NotReady(m)
    ELSE
    LET p == JoinPoll(future, fail)
        m0 == [m EXCEPT !.polled = @ \cup {"fetch"},
                        !.failed = fail,
                        !.state.future = p.future]
    IN
    IF p.kind = "Err"
    THEN Err(Abort(m0, block), "ContextualizedError",
             "fetching messages and signatures from foreign")
    ELSE IF p.kind = "NotReady" THEN NotReady(m0)
    ELSE
    LET messages_raw == MessagesRaw(p, garbled)
        signatures_raw == SignaturesRaw(p, garbled)
    IN
    IF Len(messages_raw) # Len(signatures_raw)
    THEN Panic(m0, "assertion failed")
    ELSE IF balance = None
    THEN Panic(m0, "called Option::unwrap() on a None value, withdraw_relay.rs:190")
    ELSE
    LET balance_required == BalanceRequired(GasLimit, gas_price, Len(messages_raw))
        m1 == [m0 EXCEPT !.cur.gate =
                  IF GasLimit * gas_price * Len(future.message_calls) > balance[1]
                  THEN "over" ELSE "pass"]
    IN
    IF InsufficientFunds(balance_required, balance)
    THEN Err(Abort(m1, block), "InsufficientFunds", "")
    ELSE IF \E i \in 1..Len(messages_raw) : DecodeFails(messages_raw[i])
    THEN Err(Abort(m1, block), "DecodeError", "")
    ELSE IF \E i \in 1..Len(signatures_raw) :
              \E j \in 1..Len(signatures_raw[i]) : DecodeFails(signatures_raw[i][j])
    THEN Err(Abort(m1, block), "DecodeError", "")
    ELSE
    LET messages == [i \in 1..Len(messages_raw) |-> Decode(messages_raw[i])]
        signatures == [i \in 1..Len(signatures_raw) |->
                          [j \in 1..Len(signatures_raw[i]) |->
                              Decode(signatures_raw[i][j])]]
        relays == Relays(GasLimit, messages, signatures)
    IN Continue([m1 EXCEPT
           !.state = [ tag |-> "RelayWithdraws",
                       future |-> [sends |-> relays, queue |-> <<>>, items |-> 0],
                       block |-> block ],
           !.cur.submitted = Len(relays) ])

\* ------------------------------------------------------- RelayWithdraws arm
\* an arm that answers a failed send by sending its transaction again
RelayArm_Retry(m) ==
    LET block == m.state.block
        c == CollectPoll(m.state.future)
        m0 == [m EXCEPT !.polled = @ \cup {"sends"}, !.state.future = c.future]
    IN
    IF c.kind = "Err"
    THEN NotReady([m0 EXCEPT !.state.future.sends =
             [i \in 1..Len(@) |->
                 IF @[i].status = "gone" /\ m.state.future.sends[i].status = "err"
                 THEN SendTransaction(@[i].tx) ELSE @[i]]])
    ELSE IF c.kind = "NotReady" THEN NotReady(m0)
    ELSE Continue([m0 EXCEPT !.state = [tag |-> "Yield", block |-> Some(block)]])

\* an arm that does not wait: sends still pending count as done
RelayArm_NoWait(m) ==
    LET block == m.state.block
        c == CollectPoll(m.state.future)
        m0 == [m EXCEPT !.polled = @ \cup {"sends"}, !.state.future = c.future]
    IN
    IF c.kind = "Err"
    THEN Err(Abort(m0, block), "ContextualizedError", "sending withdrawal to home")
    ELSE Continue([m0 EXCEPT !.state = [tag |-> "Yield", block |-> Some(block)]])

RelayArm(m) ==
    LET block == m.state.block
        c == CollectPoll(m.state.future)
        m0 == [m EXCEPT !.polled = @ \cup {"sends"}, !.state.future = c.future]
    IN
    IF c.kind = "Err"
    THEN Err(Abort(m0, block), "ContextualizedError", "sending withdrawal to home")
    ELSE IF c.kind = "NotReady" THEN NotReady(m0)
    ELSE Continue([m0 EXCEPT !.state = [tag |-> "Yield", block |-> Some(block)]])

\* ---------------------------------------------------------------- Yield arm
\* the value read and left in place instead of taken
YieldArm_NoTake(m) ==
    IF m.state.block = None
    THEN Continue([m EXCEPT !.state = [tag |-> "Wait"]])
    ELSE Ready([m EXCEPT !.out = Append(@, m.state.block[1])], m.state.block[1])

\* block.take(): the value is handed out once and None is left behind
YieldArm(m) ==
    IF m.state.block = None
    THEN Continue([m EXCEPT !.state = [tag |-> "Wait"]])
    ELSE Ready([m EXCEPT !.state = [tag |-> "Yield", block |-> None],
                         !.out = Append(@, m.state.block[1])],
               m.state.block[1])

\* ------------------------------------------------------------------ the loop
RECURSIVE PollLoop(_, _, _, _, _, _, _, _)
PollLoop(m, account, balance, gas_price, logres, info_enabled, fail, garbled) ==
    LET r == CASE m.state.tag = "Wait" -> WaitArm(m, account, logres, info_enabled)
               [] m.state.tag = "FetchMessagesSignatures" ->
                      FetchArm(m, balance, gas_price, fail, garbled)
               [] m.state.tag = "RelayWithdraws" -> RelayArm(m)
               [] m.state.tag = "Yield" -> YieldArm(m)
    IN IF r.ret.kind = "Continue"
       THEN PollLoop(r.m, account, balance, gas_price, logres, info_enabled, fail, garbled)
       ELSE r

\* ------------------------------------------------------------------ actions
Idle ==
    [ kind |-> "Idle", error |-> "", context |-> "", value |-> 0, polled |-> {},
      faults |-> {} ]

EngineInit ==
    /\ foreign_account \in Addresses
    /\ state = [tag |-> "Wait"]
    /\ logs_after = 0
    /\ home_balance \in {None} \cup {Some(b) : b \in Balances}
    /\ panicked = FALSE
    /\ ret = Idle
    /\ cur = [ block |-> 0, logs |-> 0, owned |-> <<>>, malformed |-> 0,
               issued |-> <<>>, gate |-> "",
               submitted |-> 0, send_ok |-> 0, send_err |-> 0 ]
    /\ out = <<>>
    /\ aborted = {}
    /\ unsent = {}

NotCalled == [tag |-> "NotCalled"]

Init ==
    /\ EngineInit
    /\ payload_call = [ log |-> TestLog, info_enabled |-> FALSE,
                       results |-> [a \in Addresses |-> NotCalled] ]

\* the loop reaches the Wait arm in this call of poll
ReachesWait == state.tag = "Wait" \/ (state.tag = "Yield" /\ state.block = None)

\* the engine's side of the state, as poll finds it
Engine ==
    [ state |-> state, logs_after |-> logs_after, cur |-> cur, out |-> out,
      aborted |-> aborted, unsent |-> unsent, polled |-> {}, failed |-> NoFail ]

\* what the log stream may answer to this call of poll
LogInputs == IF ReachesWait THEN LogStreamPoll(logs_after) ELSE {[kind |-> "NotReady"]}

\* the fetch calls that may fail in this call of poll: the pending calls of the
\* future the FetchMessagesSignatures arm polls, which the Wait arm may have
\* built from `logres` in this same call
FailInputs(logres, info_enabled) ==
    {NoFail} \cup
    (IF BalanceUnknown(home_balance) THEN {}
     ELSE IF ReachesWait
     THEN LET r == WaitArm([Engine EXCEPT !.state = [tag |-> "Wait"]],
                           foreign_account, logres, info_enabled)
          IN IF r.ret.kind = "Continue" THEN PendingCalls(r.m.state.future) ELSE {}
     ELSE IF state.tag = "FetchMessagesSignatures" /\ ~state.future.gone
     THEN PendingCalls(state.future)
     ELSE {})

\* the fetch is about to complete in this call of poll: the balance is known
\* and every one of its calls, at least one, has its answer
FetchCompletes ==
    /\ state.tag = "FetchMessagesSignatures"
    /\ ~state.future.gone
    /\ state.future.message_calls # <<>>
    /\ ~BalanceUnknown(home_balance)
    /\ PendingCalls(state.future) = {}

\* the shared home_gas_price is written by the gas price refresher at any time:
\* what poll reads from it is an input of the call. Only the step that completes
\* a fetch of at least one withdraw uses the value
GasPriceInputs ==
    IF FetchCompletes
    THEN GasPrices
    ELSE {CHOOSE g \in GasPrices : \A h \in GasPrices : g <= h}

\* the call whose answer may turn out undecodable in this call of poll: the
\* arm looks at the answers only when the fetch completes
GarbledInputs ==
    {NoFail} \cup (IF FetchCompletes THEN CallPositions(state.future) ELSE {})

\* the level of the logger is set outside the engine: whether it takes records
\* of level Info is an input of the call. Only the step that decodes a log
\* without a transaction hash evaluates an argument that can fail
InfoInputs(logres) ==
    IF /\ ReachesWait
       /\ logres.kind = "Item"
       /\ \E i \in 1..Len(logres.item.logs) : logres.item.logs[i].transaction_hash = None
    THEN BOOLEAN
    ELSE {FALSE}

\* one call of WithdrawRelay::poll by the driver
PollWith(logres, info_enabled, fail, garbled, home_gas_price) ==
    \E r \in {PollLoop(Engine, foreign_account, home_balance, home_gas_price,
                       logres, info_enabled, fail, garbled)} :
       /\ r.m.failed = fail
       /\ state' = r.m.state
       /\ logs_after' = r.m.logs_after
       /\ cur' = r.m.cur
       /\ out' = r.m.out
       /\ aborted' = r.m.aborted
       /\ unsent' = r.m.unsent
       /\ panicked' = (r.ret.kind = "Panic")
       /\ ret' = [ kind |-> r.ret.kind, error |-> r.ret.error, context |-> r.ret.context,
                   value |-> r.ret.value, polled |-> r.m.polled,
                   faults |-> (IF ReachesWait /\ logres.kind = "Err" THEN {"logs"} ELSE {})
                                 \cup (IF fail # NoFail THEN {"fetch"} ELSE {})
                                 \cup (IF garbled # NoFail THEN {"answer"} ELSE {}) ]
       /\ UNCHANGED << foreign_account, home_balance, payload_call >>

Poll ==
    /\ ~panicked
    /\ \E logres \in LogInputs : \E info_enabled \in InfoInputs(logres) :
          \E fail \in FailInputs(logres, info_enabled) :
             \E garbled \in GarbledInputs : \E home_gas_price \in GasPriceInputs :
                PollWith(logres, info_enabled, fail, garbled, home_gas_price)

\* the response of one fetch call arrives from the foreign node
FetchRespond ==
    /\ state.tag = "FetchMessagesSignatures"
    /\ ~state.future.gone
    /\ \E pos \in PendingCalls(state.future) :
          state' = IF pos[1] = 0
                   THEN [state EXCEPT !.future.message_calls[pos[2]].status = "ok"]
                   ELSE [state EXCEPT !.future.signature_calls[pos[1]][pos[2]].status = "ok"]
    /\ ret' = Idle
    /\ UNCHANGED << foreign_account, logs_after, home_balance,
                    panicked, cur, out, aborted, unsent, payload_call >>

\* one send finishes: the transaction went out, or the sender gave up
SendResolve ==
    /\ state.tag = "RelayWithdraws"
    /\ \E i \in 1..Len(state.future.sends) : \E outcome \in {"ok", "err"} :
          /\ state.future.sends[i].status = "pending"
          /\ state' = [state EXCEPT !.future.sends[i].status = outcome,
                                    !.future.queue = Append(@, i)]
          /\ cur' = IF outcome = "ok" THEN [cur EXCEPT !.send_ok = @ + 1]
                    ELSE [cur EXCEPT !.send_err = @ + 1]
          /\ unsent' = IF outcome = "ok" /\ cur.send_ok + 1 = Len(cur.owned)
                       THEN unsent \ {cur.block} ELSE unsent
    /\ ret' = Idle
    /\ UNCHANGED << foreign_account, logs_after, home_balance,
                    panicked, out, aborted, payload_call >>

\* the balance refresher writes the shared home_balance
RefreshBalance ==
    /\ \E b \in ({None} \cup {Some(v) : v \in Balances}) \ {home_balance} :
          home_balance' = b
    /\ ret' = Idle
    /\ UNCHANGED << foreign_account, state, logs_after,
                    panicked, cur, out, aborted, unsent, payload_call >>

Next == Poll \/ FetchRespond \/ SendResolve \/ RefreshBalance

Spec == Init /\ [][Next]_vars

\* ------------------------------------------------- the life of one batch
\* the log stream hands out the logs up to the newest block in one item
NewestLogInputs ==
    {logres \in LogInputs : logres.kind = "Item" => logres.item.to = MaxBlock}

PollNewest ==
    /\ ~panicked
    /\ \E logres \in NewestLogInputs : \E info_enabled \in InfoInputs(logres) :
          \E fail \in FailInputs(logres, info_enabled) :
             \E garbled \in GarbledInputs : \E home_gas_price \in GasPriceInputs :
                PollWith(logres, info_enabled, fail, garbled, home_gas_price)

NextLive == PollNewest \/ FetchRespond \/ SendResolve \/ RefreshBalance

\* the driver polls the stream again whenever a poll can make progress, the
\* foreign node answers every call and the sender resolves every send
SpecLive ==
    /\ Init
    /\ [][NextLive]_vars
    /\ WF_vars(PollNewest)
    /\ WF_vars(FetchRespond)
    /\ WF_vars(SendResolve)

\* ------------------------------------------- signatures_payload on its own
\* the authorities an event may name: the two nodes and an address that is no
\* node of the deployment
Authorities == Addresses \cup {Zeros(20)}

\* counts of collected signatures: the small ones, and 2^32 + k
SignatureNumbers ==
    {Word(k) : k \in 0..MaxSignatures}
        \cup {Zeros(27) \o <<1>> \o Zeros(3) \o <<k>> : k \in 0..1}

\* the events, each in a log with and in a log without a transaction hash, and
\* the logs that are no event: data one word short, data of three words and
\* one byte, another topic, no topic
PayloadLogs ==
    {[MkLog(a, Word(h), n) EXCEPT !.transaction_hash = t] :
        a \in Authorities, h \in {240, 241, 242}, n \in SignatureNumbers,
        t \in {None, Some(TestTransactionHash)}}
        \cup {MalformedLog,
              [TestLog EXCEPT !.data = @ \o <<0>>],
              [TestLog EXCEPT !.topics = <<Word(1)>>],
              [TestLog EXCEPT !.topics = <<>>]}

InitPayload ==
    /\ EngineInit
    /\ \E log \in PayloadLogs :
          payload_call = [ log |-> log, info_enabled |-> FALSE,
                           results |-> [a \in Addresses |-> NotCalled] ]

\* every node of the deployment sees the log and calls signatures_payload,
\* its logger taking records of level Info or not
SignaturesPayloadCall ==
    /\ \A a \in Addresses : payload_call.results[a] = NotCalled
    /\ \E info_enabled \in BOOLEAN :
          payload_call' = [payload_call EXCEPT
              !.info_enabled = info_enabled,
              !.results = [a \in Addresses |->
                              signatures_payload(a, payload_call.log, info_enabled)]]
    /\ UNCHANGED << foreign_account, state, logs_after, home_balance,
                    panicked, ret, cur, out, aborted, unsent >>

NextPayload == SignaturesPayloadCall

SpecPayload == InitPayload /\ [][NextPayload]_vars

\* ================================================================== claims
Emitted(block) == \E i \in 1..Len(out) : out[i] = block

\* the step is a call of poll that returned (an environment step leaves Idle)
Polled == ret'.kind # "Idle"

\* ---------------------------------------------------------------------- C1
\* C1, batch atomicity: a batch for which poll returned the error of a failed
\* send in RelayWithdraws never has its checkpoint emitted, however often the
\* stream is polled afterwards.
C1_BatchAtomicity ==
    \A a \in aborted : a.stage = "RelayWithdraws" => ~Emitted(a.block)

\* ---------------------------------------------------------------------- C2
\* C2, no lost withdrawal on failure: once poll has returned an error for a
\* batch, no checkpoint at or above the upper block of that batch is emitted
\* until every owned event of the batch has had its withdraw sent successfully.
C2_NoLostWithdrawal ==
    \A a \in aborted :
        (\E i \in 1..Len(out) : out[i] >= a.block) => a.block \notin unsent

\* ---------------------------------------------------------------------- C3
\* C3, balance gate: when the fetch completes with n withdraws and
\* gas * home_gas_price * n exceeds the home balance, the poll returns
\* InsufficientFunds, no transaction of the batch has been handed to the
\* sender, and the engine does not enter RelayWithdraws for the batch.
C3_BalanceGate ==
    /\ [](cur.gate = "over" =>
            /\ cur.submitted = 0
            /\ state.tag = "FetchMessagesSignatures"
            /\ state.block = cur.block
            /\ [block |-> cur.block, stage |-> "FetchMessagesSignatures"] \in aborted
            /\ ~Emitted(cur.block))
    /\ [][(cur.gate # "over" /\ cur'.gate = "over") =>
            (ret'.kind = "Err" /\ ret'.error = "InsufficientFunds")]_vars

\* the gate refused a batch of two withdraws and the caller polled again
C3_Witness ==
    /\ cur.gate = "over"
    /\ Len(cur.owned) = 2
    /\ home_balance = Some(4)
    /\ panicked

\* ---------------------------------------------------------------------- C4
\* C4, suspension without loss: in FetchMessagesSignatures with the home
\* balance unknown, a call of poll returns NotReady, polls nothing, leaves the
\* state (the future and the block) as it was, submits nothing and emits
\* nothing.
C4_Suspension ==
    [][(state.tag = "FetchMessagesSignatures" /\ home_balance = None /\ Polled) =>
          /\ ret'.kind = "NotReady"
          /\ ret'.polled = {}
          /\ state' = state
          /\ cur' = cur
          /\ out' = out
          /\ aborted' = aborted
          /\ logs_after' = logs_after]_vars

\* a poll found the balance unknown while every response had already arrived
C4_Witness ==
    /\ state.tag = "FetchMessagesSignatures"
    /\ home_balance = None
    /\ ret.kind = "NotReady"
    /\ ret.polled = {}
    /\ ~state.future.gone
    /\ state.future.message_calls # <<>>
    /\ PendingCalls(state.future) = {}

\* ---------------------------------------------------------------------- C5
\* the log is a collected-signatures event: its one topic is the event's, its
\* data are the three words authority, message hash, number of signatures
WellFormedLog(log) ==
    /\ log.topics = <<CollectedSignaturesTopic>>
    /\ Len(log.data) = 96

\* the nodes for which the call on the log in hand returned an assignment
Assigned == {a \in Addresses : payload_call.results[a].tag = "Some"}

\* C5, relay-responsibility sharding: on a well-formed collected-signatures
\* log, signatures_payload returns Some(assignment) for a node exactly when the
\* event's authority_responsible_for_relay is that node's address and None
\* otherwise, so of the nodes that see the log at most one builds an assignment.
C5_Sharding ==
    WellFormedLog(payload_call.log) =>
        /\ \A a \in Addresses :
              payload_call.results[a].tag # "NotCalled" =>
                  IF SubSeq(payload_call.log.data, 13, 32) = a
                  THEN payload_call.results[a].tag = "Some"
                  ELSE payload_call.results[a].tag = "None"
        /\ Cardinality(Assigned) <= 1

\* ---------------------------------------------------------------------- C6
\* the 256-bit word of a count of payloads
CountWord(n) == Zeros(28) \o << n \div 16777216, (n \div 65536) % 256,
                                (n \div 256) % 256, n % 256 >>

\* C6, assignment size and order: for an owned event with n collected
\* signatures (any 256-bit value) and message hash h, the assignment holds
\* exactly n signature payloads, the i-th (from 0) being the encoding of
\* signature(h, i), and one message payload, the encoding of message(h).
C6_AssignmentSizeAndOrder ==
    \A a \in Addresses :
        payload_call.results[a].tag = "Some" =>
            LET hash == SubSeq(payload_call.log.data, 33, 64)
                number == SubSeq(payload_call.log.data, 65, 96)
                payloads == payload_call.results[a].signature_payloads
            IN /\ CountWord(Len(payloads)) = number
               /\ \A i \in 1..Len(payloads) :
                     payloads[i] = <<24, 18, 217, 150>> \o hash \o CountWord(i - 1)
               /\ payload_call.results[a].message_payload = <<73, 10, 50, 198>> \o hash

\* ---------------------------------------------------------------------- C7
\* every send of the batch in hand went out
AllSendsSucceeded ==
    /\ state.tag = "RelayWithdraws"
    /\ cur.send_err = 0
    /\ cur.send_ok = Len(state.future.sends)

\* C7, exactly one checkpoint per completed batch: the poll that finds every
\* send of a batch succeeded emits one value, the upper block of the log
\* result that started the batch, and leaves Yield(None); the poll that finds
\* Yield(None) goes to Wait and polls the logs; no value is emitted twice.
C7_OneCheckpointPerBatch ==
    /\ [](\A i, j \in 1..Len(out) : i # j => out[i] # out[j])
    /\ [][(AllSendsSucceeded /\ Polled) =>
             /\ ret'.kind = "Ready"
             /\ ret'.value = cur.block
             /\ out' = Append(out, cur.block)
             /\ state' = [tag |-> "Yield", block |-> None]]_vars
    /\ [][(state = [tag |-> "Yield", block |-> None] /\ Polled) =>
             /\ "logs" \in ret'.polled
             /\ \A i \in 1..Len(out') : out'[i] = cur.block => i <= Len(out)]_vars
    /\ [][Len(out') > Len(out) =>
             /\ out' = Append(out, cur'.block)
             /\ ret'.kind = "Ready"
             /\ ret'.value = cur'.block]_vars

\* two batches, each of one withdraw that went out, and their two checkpoints
C7_Witness ==
    /\ out = <<1, 2>>
    /\ cur.send_ok = 1
    /\ Len(cur.owned) = 1
    /\ aborted = {}
    /\ state.tag = "Wait"

\* ---------------------------------------------------------------------- C8
\* C8, strictly sequential batches: a poll that starts in
\* FetchMessagesSignatures, RelayWithdraws or Yield(Some) does not poll the
\* logs; when a batch is taken from the logs every send of the batch before it
\* has resolved; each emitted value is the upper block of a batch taken since
\* the emission before it.
C8_SequentialBatches ==
    /\ [][(Polled /\ "logs" \in ret'.polled) => ReachesWait]_vars
    /\ [][(Polled /\ (logs_after' # logs_after \/ cur'.block # cur.block)) =>
             cur.submitted = cur.send_ok + cur.send_err]_vars
    /\ [][Len(out') > Len(out) =>
             \A i \in 1..Len(out) : out[i] < cur'.block]_vars
    /\ [](state.tag = "RelayWithdraws" =>
             /\ state.block = cur.block
             /\ cur.submitted = Len(state.future.sends)
             /\ logs_after = cur.block)

\* a second batch was taken after the two sends of the first, one of them
\* failed, had resolved
C8_Witness ==
    /\ cur.block = 2
    /\ state.tag = "RelayWithdraws"
    /\ out = <<1>>
    /\ \E a \in aborted : a.block = 1 /\ a.stage = "RelayWithdraws"
    /\ Len(state.future.sends) = 2
    /\ cur.send_ok = 1
    /\ cur.send_err = 0

\* ---------------------------------------------------------------------- C9
\* C9, only owned events are relayed: the message and signature calls of a
\* batch are those of the events whose authority is this node's address, in
\* the order of the logs; in RelayWithdraws the transactions submitted are one
\* per owned event; a checkpoint emitted is the upper block of the batch.
C9_OnlyOwnedRelayed ==
    /\ \A i \in 1..Len(cur.issued) :
          i <= Len(cur.owned) /\ cur.issued[i].hash = cur.owned[i]
    /\ (state.tag = "FetchMessagesSignatures" /\ ~state.future.gone) =>
          /\ Len(state.future.message_calls) = Len(cur.owned)
          /\ Len(state.future.signature_calls) = Len(cur.owned)
          /\ \A i \in 1..Len(cur.owned) :
                /\ state.future.message_calls[i].hash = cur.owned[i]
                /\ \A j \in 1..Len(state.future.signature_calls[i]) :
                      state.future.signature_calls[i][j].hash = cur.owned[i]
    /\ state.tag = "RelayWithdraws" =>
          /\ cur.submitted = Len(cur.owned)
          /\ Len(state.future.sends) = Len(cur.owned)
          /\ \A i \in 1..Len(cur.owned) :
                state.future.sends[i].tx.data.message.hash = cur.owned[i]
    /\ cur.submitted \in {0, Len(cur.owned)}
    /\ ret.kind = "Ready" => ret.value = cur.block /\ out[Len(out)] = cur.block

\* a batch of two logs, one of them this node's, relayed as one transaction
\* that went out, and its checkpoint emitted
C9_Witness ==
    /\ cur.logs = 2
    /\ Len(cur.owned) = 1
    /\ cur.submitted = 1
    /\ cur.send_ok = 1
    /\ ret.kind = "Ready"
    /\ ret.value = cur.block

\* --------------------------------------------------------------------- C10
\* the poll took a log result and decoded every log of it
BatchTaken ==
    /\ Polled
    /\ "logs" \in ret'.polled
    /\ cur' # cur
    /\ [block |-> cur'.block, stage |-> "Wait"] \notin aborted'

\* C10, empty batch is a valid batch: a log result with no owned event goes
\* through FetchMessagesSignatures and RelayWithdraws to Yield, submits no
\* transaction, passes the balance gate and has its upper block emitted, in
\* the poll that took it when the home balance is known, and otherwise in the
\* first poll that finds the balance known.
C10_EmptyBatch ==
    /\ [][(BatchTaken /\ cur'.owned = <<>>) =>
             IF home_balance = None
             THEN /\ ret'.kind = "NotReady"
                  /\ state'.tag = "FetchMessagesSignatures"
                  /\ state'.block = cur'.block
                  /\ out' = out
             ELSE /\ ret'.kind = "Ready"
                  /\ ret'.value = cur'.block
                  /\ {"fetch", "sends"} \subseteq ret'.polled
                  /\ out' = Append(out, cur'.block)
                  /\ state' = [tag |-> "Yield", block |-> None]]_vars
    /\ [][(state.tag = "FetchMessagesSignatures" /\ ~state.future.gone
              /\ cur.owned = <<>> /\ home_balance # None /\ Polled) =>
             /\ ret'.kind = "Ready"
             /\ ret'.value = cur.block
             /\ {"fetch", "sends"} \subseteq ret'.polled
             /\ out' = Append(out, cur.block)
             /\ state' = [tag |-> "Yield", block |-> None]]_vars
    /\ [](cur.owned = <<>> =>
             /\ cur.gate # "over"
             /\ cur.submitted = 0
             /\ \A a \in aborted : a.block = cur.block => a.stage = "Wait")

\* --------------------------------------------------------------------- C11
\* what the sends of a batch cost together: gas * gas_price of each transaction
RECURSIVE SendsCost(_)
SendsCost(sends) ==
    IF sends = <<>> THEN 0
    ELSE Head(sends).tx.gas * Head(sends).tx.gas_price + SendsCost(Tail(sends))

\* C11, affordability of what is sent: when the transactions of a batch are
\* submitted, the sum over them of gas limit * gas price of the transaction
\* does not exceed the home balance read for the balance check of the batch.
C11_Affordability ==
    [][(Polled /\ "fetch" \in ret'.polled /\ state'.tag = "RelayWithdraws") =>
          SendsCost(state'.future.sends) <= home_balance[1]]_vars

\* --------------------------------------------------------------------- C12
\* C12, a malformed log aborts the whole batch: when a log of the batch taken
\* in Wait does not decode, the poll returns the decode error having polled
\* the logs only, no fetch call is issued and nothing submitted for any event
\* of the batch, the state stays Wait and the batch's block is not emitted.
C12_MalformedLogAborts ==
    /\ [](cur.malformed > 0 =>
            /\ cur.issued = <<>>
            /\ cur.submitted = 0
            /\ cur.gate = ""
            /\ state = [tag |-> "Wait"]
            /\ ~Emitted(cur.block))
    /\ [][(Polled /\ cur'.block # cur.block /\ cur'.malformed > 0) =>
            /\ ret'.kind = "Err"
            /\ ret'.error = "DecodeError"
            /\ ret'.polled = {"logs"}
            /\ out' = out]_vars

\* --------------------------------------------------------------------- C13
\* the sends of the batch in hand that have not finished
PendingSends ==
    {i \in 1..Len(state.future.sends) : state.future.sends[i].status = "pending"}

\* C13, unordered fan-in of sends: in whatever order the sends finish, a poll
\* leaves RelayWithdraws only when every send of the batch has finished, and
\* the value it then emits is the batch's upper block; while a send is pending
\* and none has failed the poll returns NotReady and stays in RelayWithdraws.
C13_UnorderedFanIn ==
    /\ [][(state.tag = "RelayWithdraws" /\ Polled /\ state'.tag # "RelayWithdraws") =>
             /\ PendingSends = {}
             /\ cur.send_ok + cur.send_err = Len(state.future.sends)
             /\ ret'.kind = "Ready"
             /\ ret'.value = cur.block
             /\ out' = Append(out, cur.block)]_vars
    /\ [][(state.tag = "RelayWithdraws" /\ Polled /\ PendingSends # {}
              /\ cur.send_err = 0) =>
             /\ ret'.kind = "NotReady"
             /\ ret'.polled = {"sends"}
             /\ state'.tag = "RelayWithdraws"
             /\ state'.block = state.block
             /\ out' = out]_vars
    /\ [][(Polled /\ "fetch" \in ret'.polled /\ cur'.submitted > 0) =>
             /\ ret'.kind = "NotReady"
             /\ state'.tag = "RelayWithdraws"
             /\ Len(state'.future.sends) = cur'.submitted
             /\ out' = out]_vars
    /\ [][Len(out') > Len(out) =>
             cur'.send_ok + cur'.send_err = cur'.submitted]_vars

\* of two sends the second finished first and was collected, the first is
\* still pending and the poll returned NotReady
C13_Witness ==
    /\ state.tag = "RelayWithdraws"
    /\ Len(state.future.sends) = 2
    /\ state.future.sends[1].status = "pending"
    /\ state.future.sends[2].status = "gone"
    /\ cur.send_ok = 1
    /\ ret.kind = "NotReady"
    /\ ret.polled = {"sends"}

\* --------------------------------------------------------------------- C14
\* the engine holds the batch of `block` in FetchMessagesSignatures, its fetch
\* not consumed, and the balance is unknown
Suspended(block) ==
    /\ state.tag = "FetchMessagesSignatures"
    /\ ~state.future.gone
    /\ state.block = block
    /\ cur.block = block
    /\ home_balance = None

\* the engine has left the suspension with the batch of `block`: its sends are
\* submitted, or its checkpoint is out, or poll returned an error for it
Resumed(block) ==
    \/ state.tag = "RelayWithdraws" /\ state.block = block
    \/ Emitted(block)
    \/ [block |-> block, stage |-> "FetchMessagesSignatures"] \in aborted

\* C14, resumption after suspension: from FetchMessagesSignatures with the
\* balance unknown, if the balance becomes known and stays known, the calls get
\* their answers and the driver keeps polling, the engine leaves the suspended
\* state with the batch it held, into RelayWithdraws for its block or with an
\* error; and from RelayWithdraws with no send of the batch failing, the
\* batch's checkpoint is emitted.
C14_Resumption ==
    /\ []<>(home_balance = None) \/ (Suspended(MaxBlock) ~> Resumed(MaxBlock))
    /\ (state.tag = "RelayWithdraws" /\ cur.block = MaxBlock)
           ~> (Emitted(MaxBlock) \/ (cur.block = MaxBlock /\ cur.send_err > 0))

\* a batch of two logs of other nodes, taken while the balance was unknown,
\* was emitted by a later poll that found the balance known
C14_Witness ==
    /\ cur.owned = <<>>
    /\ cur.logs = 2
    /\ home_balance = Some(4)
    /\ ret.kind = "Ready"
    /\ ret.polled = {"fetch", "sends"}
    /\ out = <<cur.block>>

\* --------------------------------------------------------------------- C15
\* a send that failed waits in the ready queue of the batch in hand
FailedSendReady ==
    /\ state.tag = "RelayWithdraws"
    /\ \E k \in 1..Len(state.future.queue) :
          state.future.sends[state.future.queue[k]].status = "err"

\* the transactions of the sends, in the order they were submitted
SentTransactions(s) == [i \in 1..Len(s.future.sends) |-> s.future.sends[i].tx]

\* C15, stage-tagged errors without internal retry: a failure of the log
\* stream, of a fetch call or of a send is returned by the poll that meets it
\* as ContextualizedError with the context of its stage, and the engine
\* neither issues a fetch call nor submits a transaction again in response.
C15_StageTaggedErrors ==
    /\ [][(Polled /\ "logs" \in ret'.faults) =>
             /\ ret'.kind = "Err"
             /\ ret'.error = "ContextualizedError"
             /\ ret'.context = "polling foreign for collected signatures"
             /\ state' = [tag |-> "Wait"]
             /\ cur' = cur]_vars
    /\ [][(Polled /\ "fetch" \in ret'.faults) =>
             /\ ret'.kind = "Err"
             /\ ret'.error = "ContextualizedError"
             /\ ret'.context = "fetching messages and signatures from foreign"
             /\ state'.tag = "FetchMessagesSignatures"
             /\ state'.future.gone
             /\ cur'.submitted = 0]_vars
    /\ [][(Polled /\ FailedSendReady) =>
             /\ ret'.kind = "Err"
             /\ ret'.error = "ContextualizedError"
             /\ ret'.context = "sending withdrawal to home"
             /\ state'.tag = "RelayWithdraws"
             /\ cur' = cur]_vars
    /\ [][(state.tag = "RelayWithdraws" /\ state'.tag = "RelayWithdraws"
              /\ cur'.block = cur.block) =>
             /\ SentTransactions(state') = SentTransactions(state)
             /\ \A i \in 1..Len(state.future.sends) :
                   state'.future.sends[i].status = "pending"
                       => state.future.sends[i].status = "pending"]_vars
    /\ [][(Polled /\ ret'.kind = "Err" /\ ret'.error = "ContextualizedError") =>
             \/ "logs" \in ret'.faults
             \/ "fetch" \in ret'.faults
             \/ FailedSendReady]_vars

\* of two sends one failed and the poll returned its error, the other one is
\* still pending
C15_Witness ==
    /\ state.tag = "RelayWithdraws"
    /\ Len(state.future.sends) = 2
    /\ cur.send_err = 1
    /\ cur.send_ok = 0
    /\ ret.kind = "Err"
    /\ ret.context = "sending withdrawal to home"
    /\ PendingSends # {}

\* --------------------------------------------------------------------- C16
\* the gas price the message of hash h asks for, as the foreign contract
\* stores it
StoredGasPrice(h) == IF h = 240 THEN 3 ELSE 1

\* C16, transaction shape: every transaction submitted has the configured gas
\* limit, the gas price decoded from its own message, value 0, the placeholder
\* nonce 0, the home contract as target, and as data the withdraw payload of
\* that message and its signatures.
C16_TransactionShape ==
    state.tag = "RelayWithdraws" =>
        \A i \in 1..Len(state.future.sends) :
            LET tx == state.future.sends[i].tx IN
            /\ tx.gas = GasLimit
            /\ tx.gas_price = tx.data.message.mainnet_gas_price
            /\ tx.gas_price = StoredGasPrice(tx.data.message.hash)
            /\ tx.value = 0
            /\ tx.nonce = 0
            /\ tx.action = "home_contract"
            /\ DOMAIN tx.data = {"vs", "rs", "ss", "message"}
            /\ Len(tx.data.vs) = Len(tx.data.rs)
            /\ Len(tx.data.rs) = Len(tx.data.ss)
            /\ \A k \in 1..Len(tx.data.vs) :
                  /\ tx.data.vs[k] = <<"v", tx.data.message.hash, k - 1>>
                  /\ tx.data.rs[k] = <<"r", tx.data.message.hash, k - 1>>
                  /\ tx.data.ss[k] = <<"s", tx.data.message.hash, k - 1>>

\* a transaction is out whose message asks for a gas price, 3, that is neither
\* the gas limit nor a value the shared home_gas_price takes
C16_Witness ==
    /\ state.tag = "RelayWithdraws"
    /\ \E i \in 1..Len(state.future.sends) :
          /\ state.future.sends[i].tx.gas_price = 3
          /\ state.future.sends[i].tx.gas = 2
          /\ Len(state.future.sends[i].tx.data.vs) = 2
          /\ state.future.sends[i].status = "ok"

\* --------------------------------------------------------------------- C17
\* C17, count invariant: the fetch future holds one message call and one group
\* of signature calls for each owned event of the batch, so the raw messages
\* and the raw signature groups it completes with have the same length and
\* the assert_eq of the fetch-completion step never fails.
C17_CountInvariant ==
    /\ (state.tag = "FetchMessagesSignatures" =>
           /\ Len(state.future.message_calls) = Len(state.future.signature_calls)
           /\ Len(state.future.message_calls) = Len(cur.owned))
    /\ ~(ret.kind = "Panic" /\ ret.error = "assertion failed")
    /\ (cur.gate # "" => Len(cur.issued) = Len(cur.owned))

\* the fetch of a batch of two owned events completed and passed the
\* assertion: the gate was evaluated
C17_Witness ==
    /\ Len(cur.owned) = 2
    /\ cur.gate = "pass"
    /\ "fetch" \in ret.polled
    /\ ret.kind = "NotReady"
    /\ state.tag = "RelayWithdraws"

\* --------------------------------------------------------------------- C18
\* C18, positional pairing under concurrent fetches: in whatever order the
\* fetch calls complete, the transaction of the i-th owned event carries the
\* message fetched for that event and the signatures fetched for that event,
\* all of them and in the order of their indices.
C18_PositionalPairing ==
    state.tag = "RelayWithdraws" =>
        /\ Len(state.future.sends) = Len(cur.owned)
        /\ \A i \in 1..Len(state.future.sends) :
              LET data == state.future.sends[i].tx.data IN
              /\ data.message.hash = cur.owned[i]
              /\ Len(data.vs) = cur.issued[i].signatures
              /\ \A k \in 1..Len(data.vs) :
                    /\ data.vs[k] = <<"v", cur.owned[i], k - 1>>
                    /\ data.rs[k] = <<"r", cur.owned[i], k - 1>>
                    /\ data.ss[k] = <<"s", cur.owned[i], k - 1>>

\* two owned events of different hashes, the second with two signatures and
\* the first with none, and their two transactions
C18_Witness ==
    /\ state.tag = "RelayWithdraws"
    /\ cur.owned = <<242, 240>>
    /\ Len(state.future.sends[1].tx.data.vs) = 0
    /\ Len(state.future.sends[2].tx.data.vs) = 2

\* --------------------------------------------------------------------- C19
\* the stored message of an owned event of the batch does not decode
StoredMessageCorrupt(batch) == \E i \in 1..Len(batch.owned) : batch.owned[i] = 243

\* the step is the call of poll in which the fetch of the batch in hand
\* completes: it polls the join, which an earlier poll has not consumed
FetchCompleted ==
    /\ Polled
    /\ "fetch" \in ret'.polled
    /\ ~(state.tag = "FetchMessagesSignatures" /\ state.future.gone)
    /\ cur'.gate # ""

\* C19, all-or-nothing submission: the transactions submitted for a batch are
\* none or one per owned event; when the fetch completes, the balance covers
\* the batch and an answer, a message or a signature, does not decode, the
\* poll returns the decode error and nothing of the batch is submitted.
C19_AllOrNothing ==
    /\ [](cur.submitted \in {0, Len(cur.owned)})
    /\ [](state.tag = "RelayWithdraws" => Len(state.future.sends) = Len(cur.owned))
    /\ [][(FetchCompleted /\ cur'.gate = "pass"
              /\ ("answer" \in ret'.faults \/ StoredMessageCorrupt(cur'))) =>
             /\ ret'.kind = "Err"
             /\ ret'.error = "DecodeError"
             /\ cur'.submitted = 0
             /\ state'.tag = "FetchMessagesSignatures"
             /\ out' = out]_vars
    /\ [][(Polled /\ "answer" \in ret'.faults) =>
             (ret'.kind = "Err" /\ cur'.submitted = 0)]_vars

\* of two owned events the answers of one decoded and the other's did not:
\* the decode error was returned with nothing submitted
C19_Witness ==
    /\ cur.owned = <<240, 242>>
    /\ cur.gate = "pass"
    /\ cur.submitted = 0
    /\ ret.kind = "Err"
    /\ ret.error = "DecodeError"
    /\ ret.faults = {"answer"}
    /\ state.tag = "FetchMessagesSignatures"

\* --------------------------------------------------------------------- C20
\* C20, the balance read is stable within one step: the refresher writes
\* home_balance, or sets it back to unknown, between polls only; a poll that
\* polls the fetch found the balance known, compares balance_required with
\* that same value, and never unwraps an unknown balance.
C20_BalanceSnapshot ==
    /\ [](~(ret.kind = "Panic"
              /\ ret.error = "called Option::unwrap() on a None value, withdraw_relay.rs:190"))
    /\ [][(Polled /\ "fetch" \in ret'.polled) =>
             /\ home_balance # None
             /\ home_balance' = home_balance]_vars
    /\ [][(Polled /\ cur'.gate # "" /\ (cur'.gate # cur.gate \/ cur'.block # cur.block)) =>
             /\ home_balance # None
             /\ \E g \in GasPrices :
                   (cur'.gate = "over") <=>
                       (GasLimit * g * Len(cur'.owned) > home_balance[1])
             /\ (cur'.gate = "over") <=>
                   (ret'.kind = "Err" /\ ret'.error = "InsufficientFunds")]_vars

\* the gate let the batch pass, its send went out, and the refresher has set
\* the balance back to unknown before the next poll
C20_Witness ==
    /\ home_balance = None
    /\ cur.gate = "pass"
    /\ Len(cur.owned) = 1
    /\ cur.send_ok = 1
    /\ state.tag = "RelayWithdraws"
    /\ ret.kind = "Idle"

====
